---- MODULE Spec2Model ----
(***************************************************************************)
(* The HTTP/SSE hub of p25rx (src/hub.rs) together with the two channels   *)
(* that connect it to the rest of the pipeline (src/main.rs): the hub      *)
(* channel on which the Receiver and the Demodulator send HubEvents, and   *)
(* the receiver channel on which the hub forwards SetControlFreq.          *)
(***************************************************************************)
EXTENDS Integers, Sequences, FiniteSets, TLC

(***************************************************************************)
(* Bounds of the model.                                                    *)
(***************************************************************************)
\* Spec: connections that may be waiting at once, in the listen backlog or
\* accepted and not yet handled
MaxConns == 1
\* Spec: subscribers the clients keep at once
MaxSubs == 2
\* Spec: hub events emitted in one behaviour (processed or still on the channel)
MaxEvents == 2
\* SpecCap: the same three limits for the behaviours that fill the subscriber
\* set (there the clients subscribe until the hub refuses)
CapConns == 1
CapEvents == 1
\* SetControlFreq commands that may wait on the receiver channel at once
MaxRecvQ == 1
\* lowest descriptor number the process hands out to a connection
FirstFd == 5
\* SpecSlow: subscribers the clients keep at once
SlowSubs == 1
\* SpecReplay: samples in the replay file
MaxFile == 3
\* SpecPipe: blocks the SDR driver delivers
MaxBlocks == 4
\* SpecToken: descriptors tried on each side of a boundary
MaxFdLow == 12
\* SpecLife, SpecLifeSlow: the three limits of the behaviours under fairness
LifeConns == 1
LifeSubs == 1
LifeEvents == 1
\* SpecPoll: connections waiting at once, subscribers kept, connections accepted
PollConnsMax == 2
PollSubs == 1
MaxAccepts == 3
\* SpecReplay: samples the read buffer of replay holds (32768 bytes in the code)
BufLen == 2
\* SpecRecv: --tgselect-timeout, --watchdog-timeout and --pause-timeout, in
\* baseband samples
TgselectWindow == 2
WatchdogWindow == 4
PauseWindow == 2

(***************************************************************************)
(* Program constants.                                                      *)
(***************************************************************************)
\* ArrayVec<[TcpStream; 4]>
StreamersCap == 4
\* std::u32::MAX, the "unknown" control frequency. TLC's integers are 32-bit
\* signed, so a frequency of the model is 31 bits wide and the largest of
\* them stands for u32::MAX; every frequency used is below it.
U32Max == 2147483647

StatusOk == 200
StatusNotFound == 404
StatusMethodNotAllowed == 405
StatusTooManyRequests == 429
StatusInternalServerError == 500
StatusNotImplemented == 501

(***************************************************************************)
(* Value domains.                                                          *)
(***************************************************************************)
Freqs == {851012500, 852000000}

ChanIds == {0, 1}
ParamsSet == {[base |-> 851000000, spacing |-> 12500],
              [base |-> 852000000, spacing |-> 6250]}
\* a channel is (id, number)
Chan(id, number) == [id |-> id, number |-> number]

\* descriptors a connection or a subscriber can hold
Fds == FirstFd .. (FirstFd + StreamersCap + MaxConns + CapConns)

Range(s) == {s[i] : i \in DOMAIN s}

(***************************************************************************)
(* HubEvent and StateEvent.                                                *)
(***************************************************************************)
StateEv(kind, arg) == [type |-> "State", op |-> kind, arg |-> arg]
UpdateCtlFreq(f) == StateEv("UpdateCtlFreq", [f |-> f])
UpdateChannelParams(id, p) == StateEv("UpdateChannelParams", [id |-> id, params |-> p])
UpdateCurFreq(f) == [type |-> "UpdateCurFreq", op |-> "", arg |-> [f |-> f]]
UpdateTalkGroup(tg) == [type |-> "UpdateTalkGroup", op |-> "", arg |-> [tg |-> tg]]
UpdateSignalPower(p) == [type |-> "UpdateSignalPower", op |-> "", arg |-> [p |-> p]]
TrunkingControl(opcode, fields) == [type |-> "TrunkingControl", op |-> opcode, arg |-> fields]
LinkControl(opcode, fields) == [type |-> "LinkControl", op |-> opcode, arg |-> fields]

\* fields::AltControlChannel: rfss, site and the list of alternative channels
AltFields == [rfss |-> 1, site |-> 2, alts |-> <<Chan(0, 1), Chan(1, 2), Chan(0, 3)>>]
\* fields::AdjacentSite
AdjFields == [area |-> 1, rfss |-> 1, system |-> 3, site |-> 4, channel |-> Chan(0, 5)]

\* the IDENT_UPDATEs of the site: its channel id 0 under either set of parameters
ChannelParamsEvents == {UpdateChannelParams(0, p) : p \in ParamsSet}

\* the events the Receiver and the Demodulator put on the hub channel by themselves
EmitEvents ==
    ChannelParamsEvents
    \cup {UpdateCurFreq(851012500),
          TrunkingControl("AltControlChannel", AltFields),
          LinkControl("AdjacentSite", AdjFields)}

(***************************************************************************)
(* State: the hub's replica of receiver state.                             *)
(***************************************************************************)
StateDefault == [ctlfreq |-> U32Max, channels |-> [id \in ChanIds |-> {}]]

\* an update that never replaces the parameters an id already has
ChannelsUpdateOnce(channels, arg) ==
    IF channels[arg.id] = {} THEN [channels EXCEPT ![arg.id] = {arg.params}] ELSE channels

\* ChannelParamsMap::update as called from State::update
ChannelsUpdate(channels, arg) == [channels EXCEPT ![arg.id] = {arg.params}]

\* an update that leaves the control frequency as it was
StateUpdateLost(st, sm) ==
    IF sm.op = "UpdateCtlFreq"
    THEN st
    ELSE [st EXCEPT !.channels = ChannelsUpdate(st.channels, sm.arg)]

StateUpdate(st, sm) ==
    IF sm.op = "UpdateCtlFreq"
    THEN [st EXCEPT !.ctlfreq = sm.arg.f]
    ELSE [st EXCEPT !.channels = ChannelsUpdate(st.channels, sm.arg)]

\* ChannelParams::rx_freq
RxFreq(p, number) == p.base + p.spacing * number

(***************************************************************************)
(* SSE messages and stream_event.                                          *)
(***************************************************************************)
\* SerdeEvent::new: the JSON object {"event": name, "payload": payload}
SerdeEvent(name, payload) == [event |-> name, payload |-> payload]

StreamRfssStatus(f) ==
    <<SerdeEvent("rfssStatus",
        [area |-> f.area, system |-> f.system, rfss |-> f.rfss, site |-> f.site])>>

\* one altControl message per alternative channel whose id resolves
RECURSIVE AltControlMsgs(_, _, _)
AltControlMsgs(st, f, alts) ==
    IF alts = <<>> THEN <<>>
    ELSE LET ch == Head(alts)
             found == st.channels[ch.id]
         IN  IF found = {}
             THEN AltControlMsgs(st, f, Tail(alts))
             ELSE LET p == CHOOSE x \in found : TRUE
                  IN  <<SerdeEvent("altControl",
                          [rfss |-> f.rfss, site |-> f.site,
                           freq |-> RxFreq(p, ch.number)])>>
                      \o AltControlMsgs(st, f, Tail(alts))

StreamAltControl(st, f) == AltControlMsgs(st, f, f.alts)

StreamAdjacentSite(st, f) ==
    LET found == st.channels[f.channel.id]
    IN  IF found = {} THEN <<>>
        ELSE LET p == CHOOSE x \in found : TRUE
             IN  <<SerdeEvent("adjacentSite",
                     [area |-> f.area, rfss |-> f.rfss, system |-> f.system,
                      site |-> f.site, freq |-> RxFreq(p, f.channel.number)])>>

\* a stream_event whose match has no arm for the State events
StreamEventNoState(st, e) ==
    CASE e.type = "UpdateCurFreq" -> <<SerdeEvent("curFreq", [v |-> e.arg.f])>>
      [] e.type \in {"TrunkingControl", "LinkControl"} /\ e.op = "AltControlChannel" ->
            StreamAltControl(st, e.arg)
      [] e.type \in {"TrunkingControl", "LinkControl"} /\ e.op = "AdjacentSite" ->
            StreamAdjacentSite(st, e.arg)
      [] OTHER -> <<>>

\* the messages stream_event writes to one subscriber for event e, in order
StreamEvent(st, e) ==
    CASE e.type = "State" /\ e.op = "UpdateCtlFreq" ->
            <<SerdeEvent("ctlFreq", [v |-> e.arg.f])>>
      [] e.type = "State" /\ e.op = "UpdateChannelParams" -> <<>>
      [] e.type = "UpdateCurFreq" -> <<SerdeEvent("curFreq", [v |-> e.arg.f])>>
      [] e.type = "UpdateTalkGroup" -> <<SerdeEvent("talkGroup", [v |-> e.arg.tg])>>
      [] e.type = "UpdateSignalPower" -> <<SerdeEvent("sigPower", [v |-> e.arg.p])>>
      [] e.type = "TrunkingControl" ->
            CASE e.op = "RfssStatusBroadcast" -> StreamRfssStatus(e.arg)
              [] e.op = "NetworkStatusBroadcast" -> <<SerdeEvent("networkStatus", e.arg)>>
              [] e.op = "AltControlChannel" -> StreamAltControl(st, e.arg)
              [] e.op = "AdjacentSite" -> StreamAdjacentSite(st, e.arg)
              [] e.op = "LocRegResponse" -> <<SerdeEvent("locReg", e.arg)>>
              [] e.op = "UnitRegResponse" -> <<SerdeEvent("unitReg", e.arg)>>
              [] e.op = "UnitDeregAck" -> <<SerdeEvent("unitDereg", e.arg)>>
              [] OTHER -> <<>>
      [] e.type = "LinkControl" ->
            CASE e.op = "GroupVoiceTraffic" -> <<SerdeEvent("srcUnit", [v |-> e.arg.src])>>
              [] e.op = "RfssStatusBroadcast" -> StreamRfssStatus(e.arg)
              [] e.op = "AdjacentSite" -> StreamAdjacentSite(st, e.arg)
              [] e.op = "AltControlChannel" -> StreamAltControl(st, e.arg)
              [] OTHER -> <<>>

(***************************************************************************)
(* handle_event: state first, then the fan-out.                            *)
(***************************************************************************)
\* a handle_event that takes the tuned frequency for the control frequency
EventStateCur(st, e) ==
    IF e.type = "State" THEN StateUpdate(st, e)
    ELSE IF e.type = "UpdateCurFreq" THEN [st EXCEPT !.ctlfreq = e.arg.f]
    ELSE st

\* line 211-213: only a State event touches the replica
EventState(st, e) == IF e.type = "State" THEN StateUpdate(st, e) ELSE st

\* a fan-out loop that ends at the first failed write, losing the streams
\* not yet visited
RECURSIVE KeepAliveBreak(_, _)
KeepAliveBreak(strs, failAt) ==
    IF strs = <<>> THEN <<>>
    ELSE LET n == Len(strs)
             s == strs[n]
         IN  IF failAt[s] = 0
             THEN <<s>> \o KeepAliveBreak(SubSeq(strs, 1, n - 1), failAt)
             ELSE <<>>

\* lines 216-229: streamers are popped from the back; those whose
\* stream_event returned Ok are pushed onto keep, which replaces streamers
RECURSIVE KeepAlive(_, _)
KeepAlive(strs, failAt) ==
    IF strs = <<>> THEN <<>>
    ELSE LET n == Len(strs)
             s == strs[n]
             rest == KeepAlive(SubSeq(strs, 1, n - 1), failAt)
         IN  IF failAt[s] = 0 THEN <<s>> \o rest ELSE rest

(***************************************************************************)
(* HTTP requests.                                                          *)
(***************************************************************************)
Versions == {"1.1", "1.0"}
\* the methods tried; POST stands for the methods the hub has no arm for
Methods == {"GET", "PUT", "OPTIONS", "POST"}
Paths == {"/subscribe", "/ctlfreq", "/anything"}
\* a request body: valid JSON {"ctlfreq": f}, or anything else
Bodies == [json : BOOLEAN, ctlfreq : Freqs]
\* the status uhttp_json_api reports for a request or a body it cannot parse
ParseErrors == {400}

\* parsed is what HttpRequest::new makes of the bytes on the socket
Requests ==
    [parsed : {TRUE}, ver : Versions, method : Methods, path : Paths, body : Bodies]
    \cup [parsed : {FALSE}, ver : {""}, method : {""}, path : {""},
          body : [json : {FALSE}, ctlfreq : {851012500}]]

\* a conversion whose last arm takes any other path for /ctlfreq
RouteOfAny(path) ==
    CASE path = "/subscribe" -> [ok |-> TRUE, route |-> "Subscribe", err |-> 0]
      [] OTHER -> [ok |-> TRUE, route |-> "CtlFreq", err |-> 0]

\* impl TryFrom<HttpResource> for Route
RouteOf(path) ==
    CASE path = "/subscribe" -> [ok |-> TRUE, route |-> "Subscribe", err |-> 0]
      [] path = "/ctlfreq" -> [ok |-> TRUE, route |-> "CtlFreq", err |-> 0]
      [] OTHER -> [ok |-> FALSE, route |-> "", err |-> StatusNotFound]

\* is_full off by one: the set is taken to be full only past its capacity
IsFullOffByOne(strs) == Len(strs) > StreamersCap

\* ArrayVec::is_full
IsFull(strs) == Len(strs) = StreamersCap

\* what handling one request does: the status written, the headers and body
\* that go with it, whether the stream joins streamers (push) and whether
\* SetControlFreq goes to the Receiver (send)
Reply(status) ==
    [status |-> status, ctlfreq |-> -1, cors |-> FALSE, sse |-> FALSE,
     push |-> FALSE, send |-> FALSE]

\* lines 251-267, (Get, Subscribe): try_clone, then the capacity check, then
\* start_stream; the stream is pushed only if the SSE head went out
Subscribe(strs, cloneOk, startOk) ==
    IF cloneOk
    THEN IF IsFull(strs)
         THEN Reply(StatusTooManyRequests)
         ELSE [Reply(StatusOk) EXCEPT !.sse = startOk, !.push = startOk]
    ELSE Reply(StatusInternalServerError)

\* a GET that answers the frequency the replica starts with
GetCtlFreqDefault(st) == [Reply(StatusOk) EXCEPT !.ctlfreq = StateDefault.ctlfreq]

\* lines 268-274, (Get, CtlFreq)
GetCtlFreq(st) == [Reply(StatusOk) EXCEPT !.ctlfreq = st.ctlfreq]

\* a PUT that does not look at the result of the send
PutCtlFreqUnchecked(recvAlive, body, perr) ==
    IF ~body.json THEN Reply(perr) ELSE [Reply(StatusOk) EXCEPT !.send = TRUE]

\* lines 275-287, (Put, CtlFreq): read_json, then the send to the Receiver,
\* which fails when the Receiver has dropped its end
PutCtlFreq(recvAlive, body, perr) ==
    IF ~body.json THEN Reply(perr)
    ELSE IF ~recvAlive THEN Reply(StatusInternalServerError)
    ELSE [Reply(StatusOk) EXCEPT !.send = TRUE]

\* lines 288-296, (Options, _)
Options == [Reply(StatusOk) EXCEPT !.cors = TRUE]

\* the match of lines 250-298, entered with an HTTP/1.1 request and a route
Dispatch(st, strs, recvAlive, req, route, cloneOk, startOk, perr) ==
    CASE req.method = "GET" /\ route = "Subscribe" -> Subscribe(strs, cloneOk, startOk)
      [] req.method = "GET" /\ route = "CtlFreq" -> GetCtlFreq(st)
      [] req.method = "PUT" /\ route = "CtlFreq" -> PutCtlFreq(recvAlive, req.body, perr)
      [] req.method = "OPTIONS" -> Options
      [] OTHER -> Reply(StatusMethodNotAllowed)

\* handle_stream around handle_request: an Err(status) is sent as the status
HandleRequest(st, strs, recvAlive, req, cloneOk, startOk, perr) ==
    IF ~req.parsed THEN Reply(perr)
    ELSE LET r == RouteOf(req.path)
         IN  IF ~r.ok THEN Reply(r.err)
             ELSE IF req.ver # "1.1" THEN Reply(StatusNotImplemented)
             ELSE Dispatch(st, strs, recvAlive, req, r.route, cloneOk, startOk, perr)

\* the lowest descriptor not in use, as the kernel hands them out
NextFd(used) == CHOOSE n \in Fds : n \notin used /\ \A m \in Fds : m < n => m \in used

(***************************************************************************)
(* ReplayReceiver (src/replay.rs).                                         *)
(***************************************************************************)
\* A baseband sample, named by what MessageReceiver::feed returns when it is
\* fed: nothing, an Error, a VoiceFrame (one of two frames) or another event.
Samples == {"none", "err", "vf1", "vf2", "tsbk"}
\* the zero sample the read buffer is filled with
ZeroSample == "none"

\* self.msg.feed(sample)
MsgFeed(sample) ==
    CASE sample = "none" -> [kind |-> "None", frame |-> ""]
      [] sample = "err" -> [kind |-> "Error", frame |-> ""]
      [] sample = "tsbk" -> [kind |-> "Other", frame |-> ""]
      [] OTHER -> [kind |-> "VoiceFrame", frame |-> sample]

\* AudioOutput::play
AudioPlay(played, frame) == Append(played, frame)

\* a loop body whose match sends VoiceFrame to the `_` arm
FeedSampleNoPlay(r, sample) ==
    LET event == MsgFeed(sample)
    IN  IF event.kind = "None" THEN r
        ELSE [r EXCEPT !.yielded = Append(@, event)]

\* ReplayReceiver::feed, the body of its loop for one sample
FeedSample(r, sample) ==
    LET event == MsgFeed(sample)
    IN  IF event.kind = "None" THEN r
        ELSE IF event.kind = "VoiceFrame"
             THEN [audio |-> AudioPlay(r.audio, event.frame),
                   yielded |-> Append(r.yielded, event)]
             ELSE [r EXCEPT !.yielded = Append(@, event)]

\* ReplayReceiver::feed
RECURSIVE Feed(_, _)
Feed(r, samples) ==
    IF samples = <<>> THEN r
    ELSE Feed(FeedSample(r, Head(samples)), Tail(samples))

(***************************************************************************)
(* ReceiverPolicy, TalkgroupSelection and the Receiver (src/policy.rs,     *)
(* src/talkgroups.rs, src/recv.rs), created by main.                       *)
(***************************************************************************)
\* talkgroup ids: 0 is reserved, 1 and 2 are groups A and B
Talkgroups == {1, 2}
ReservedTalkgroup == 0
\* the priority of a talkgroup; higher wins
Priority(tg) == IF tg = 2 THEN 5 ELSE 1

\* the channel parameters the site announces for channel id 0; id 1 is never
\* announced
SiteParams == [base |-> 851000000, spacing |-> 12500]
\* the channel grants the decoder yields: A on channel (0, 2), B on (0, 3), A
\* on a channel whose id never resolves, and the reserved talkgroup
Grants ==
    {[tg |-> 1, ch |-> Chan(0, 2)], [tg |-> 2, ch |-> Chan(0, 3)],
     [tg |-> 1, ch |-> Chan(1, 4)], [tg |-> ReservedTalkgroup, ch |-> Chan(0, 2)]}

\* ReceiverPolicy::new
PolicyNew(tgselect, watchdog, pause) ==
    [tgselect |-> tgselect, watchdog |-> watchdog, pause |-> pause,
     mode |-> "Idle", count |-> 0]

\* a construction with the first two windows exchanged
MainPolicySwapped(a) == PolicyNew(a.watchdog, a.tgselect, a.pause)

\* main: ReceiverPolicy::new(tgselect, watchdog, pause)
MainPolicy(a) == PolicyNew(a.tgselect, a.watchdog, a.pause)

\* TalkgroupSelection::default: no talkgroup observed (0 is no frequency)
TalkgroupsDefault == [tg \in Talkgroups |-> 0]

\* a Receiver that hops whatever --nohop says
RecvTaskNewHops(a) ==
    [mode |-> "ControlListening", ctlFreq |-> a.freq, hop |-> TRUE,
     policy |-> MainPolicy(a), talkgroups |-> TalkgroupsDefault,
     channels |-> [id \in ChanIds |-> {}], queued |-> {}]

\* main: RecvTask::new(rx_recv, tx_hub, tx_ctl, tx_audio, args.freq, !args.nohop,
\* policy, talkgroups)
RecvTaskNew(a) ==
    [mode |-> "ControlListening", ctlFreq |-> a.freq, hop |-> ~a.nohop,
     policy |-> MainPolicy(a), talkgroups |-> TalkgroupsDefault,
     channels |-> [id \in ChanIds |-> {}], queued |-> {}]

\* the window of the policy's mode
PolicyWindow(pol) ==
    CASE pol.mode = "Collecting" -> pol.tgselect
      [] pol.mode = "Locked" -> pol.watchdog
      [] pol.mode = "Paused" -> pol.pause
      [] OTHER -> 0

\* enter a mode and arm its counter
PolicyEnter(pol, mode) == [pol EXCEPT !.mode = mode, !.count = 0]

\* one baseband sample has passed
PolicyTick(pol) ==
    IF pol.mode = "Idle" THEN pol ELSE [pol EXCEPT !.count = @ + 1]

\* an expiry test that lets the counter pass its window by one
PolicyExpiredLate(pol) == pol.mode # "Idle" /\ pol.count > PolicyWindow(pol)

\* the window of the mode has run out
PolicyExpired(pol) == pol.mode # "Idle" /\ pol.count >= PolicyWindow(pol)

\* TalkgroupSelection: record a grant; a talkgroup granted again counts once
TgAdd(tgs, tg, freq) == [tgs EXCEPT ![tg] = freq]

TgObserved(tgs) == {tg \in Talkgroups : tgs[tg] # 0}

\* a pick of the lowest priority observed
TgPickLowest(tgs) ==
    IF TgObserved(tgs) = {} THEN 0
    ELSE tgs[CHOOSE tg \in TgObserved(tgs) :
                \A o \in TgObserved(tgs) : Priority(tg) <= Priority(o)]

\* TalkgroupSelection::pick: the frequency of the highest-priority talkgroup
\* observed, or 0 for none
TgPick(tgs) ==
    IF TgObserved(tgs) = {} THEN 0
    ELSE tgs[CHOOSE tg \in TgObserved(tgs) :
                \A o \in TgObserved(tgs) : Priority(tg) >= Priority(o)]

\* the frequency of a channel, or 0 while its id has no parameters
Resolve(channels, ch) ==
    IF channels[ch.id] = {} THEN 0
    ELSE RxFreq(CHOOSE p \in channels[ch.id] : TRUE, ch.number)

\* a channel grant TSBK
OnGrant(rx, g) ==
    IF ~rx.hop \/ rx.mode # "ControlListening" \/ g.tg = ReservedTalkgroup THEN rx
    ELSE LET pol == IF rx.policy.mode = "Idle" THEN PolicyEnter(rx.policy, "Collecting")
                    ELSE rx.policy
             f == Resolve(rx.channels, g.ch)
         IN  IF f = 0 THEN [rx EXCEPT !.policy = pol, !.queued = @ \cup {g}]
             ELSE [rx EXCEPT !.policy = pol, !.talkgroups = TgAdd(@, g.tg, f)]

\* an IDENT_UPDATE TSBK: the queued grants on that channel id become eligible
OnIdent(rx, id, params) ==
    LET chs == ChannelsUpdate(rx.channels, [id |-> id, params |-> params])
        ready == {g \in rx.queued : g.ch.id = id}
    IN  [rx EXCEPT !.channels = chs,
                   !.queued = @ \ ready,
                   !.talkgroups = [tg \in Talkgroups |->
                        IF \E g \in ready : g.tg = tg
                        THEN Resolve(chs, (CHOOSE g \in ready : g.tg = tg).ch)
                        ELSE @[tg]]]

\* a voice frame: forwarded to Audio; on a traffic channel it (re)arms the watchdog
OnVoice(rx) ==
    IF rx.mode = "TrafficListening"
    THEN [rx EXCEPT !.policy = PolicyEnter(@, "Locked")] ELSE rx

\* end of transmission or silence on a traffic channel
OnEot(rx) ==
    IF rx.mode = "TrafficListening" /\ rx.policy.mode = "Locked"
    THEN [rx EXCEPT !.policy = PolicyEnter(@, "Paused")] ELSE rx

\* per-hop state that survives the hop
HopKeep(rx) == rx

\* clear per-hop state
HopClear(rx) == [rx EXCEPT !.talkgroups = TalkgroupsDefault, !.queued = {}]

\* the policy after one more sample, and what its expiry does: the Tune
\* commands sent to the Controller are returned with the new Receiver
OnTick(rx) ==
    LET pol == PolicyTick(rx.policy)
        f == TgPick(rx.talkgroups)
    IN  CASE ~PolicyExpired(pol) -> [rx |-> [rx EXCEPT !.policy = pol], tunes |-> <<>>]
          [] PolicyExpired(pol) /\ pol.mode = "Collecting" /\ f = 0 ->
                [rx |-> [HopClear(rx) EXCEPT !.policy = PolicyEnter(pol, "Idle")],
                 tunes |-> <<>>]
          [] PolicyExpired(pol) /\ pol.mode = "Collecting" /\ f # 0 ->
                [rx |-> [HopClear(rx) EXCEPT !.policy = PolicyEnter(pol, "Locked"),
                                             !.mode = "TrafficListening"],
                 tunes |-> <<f>>]
          [] OTHER ->
                [rx |-> [rx EXCEPT !.policy = PolicyEnter(pol, "Idle"),
                                   !.mode = "ControlListening"],
                 tunes |-> <<rx.ctlFreq>>]

\* RecvEvent::SetControlFreq(f)
OnSetControlFreq(rx, f) ==
    [rx |-> [rx EXCEPT !.ctlFreq = f],
     tunes |-> IF rx.mode = "ControlListening" THEN <<f>> ELSE <<>>]

\* what the decoder can yield at a sample
DecoderEvents ==
    {[kind |-> k, arg |-> [none |-> 0]] : k \in {"None", "Voice", "Eot", "Error"}}
    \cup {[kind |-> "Grant", arg |-> g] : g \in Grants}
    \cup {[kind |-> "Ident", arg |-> [id |-> 0, params |-> SiteParams]]}

\* the Receiver's reaction to the decoder event of a sample
OnEvent(rx, ev) ==
    CASE ev.kind = "Grant" -> OnGrant(rx, ev.arg)
      [] ev.kind = "Ident" -> OnIdent(rx, ev.arg.id, ev.arg.params)
      [] ev.kind = "Voice" -> OnVoice(rx)
      [] ev.kind = "Eot" -> OnEot(rx)
      [] OTHER -> rx

(***************************************************************************)
(* The sample path (src/main.rs:240-264): the channels main creates and    *)
(* hands to ReadTask, DemodTask and RecvTask.                              *)
(***************************************************************************)

\* the contents an IQ block of the driver can have
BlockData == {"x", "y"}

\* the iq channel cannot take another block: let (tx_read, rx_read) = channel()
\* is std::sync::mpsc::channel, which has no capacity, so a send always queues
IqChanFull(q) == FALSE

\* ReadTask, the driver's callback with one owned block: the non-blocking send;
\* a block that finds the channel full is dropped and counted
ReaderSend(q, acc, n, block) ==
    IF IqChanFull(q)
    THEN [iq |-> q, accepted |-> acc, drops |-> n + 1]
    ELSE [iq |-> Append(q, block), accepted |-> Append(acc, block), drops |-> n]

\* DemodTask: the baseband chunk demodulated from one IQ block
Demod(block) == [from |-> block.seq, baseband |-> <<"fm", block.data>>]

(***************************************************************************)
(* HubToken and its packing into a Token (src/hub.rs:51-103).  A word is   *)
(* kept as its top 8 bits (hi) and its low 24 bits (lo): 1 << 31 is not a  *)
(* number the checker has.                                                 *)
(***************************************************************************)

\* 1 << 24
Pow24 == 16777216
\* 1 << 8, the values of the 8 bits above the low 24
Pow8 == 256

\* bitwise operations on the n low bits of two naturals
RECURSIVE BitAnd(_, _, _)
BitAnd(a, b, n) ==
    IF n = 0 THEN 0
    ELSE (a % 2) * (b % 2) + 2 * BitAnd(a \div 2, b \div 2, n - 1)

RECURSIVE BitOr(_, _, _)
BitOr(a, b, n) ==
    IF n = 0 THEN 0
    ELSE (IF a % 2 = 1 \/ b % 2 = 1 THEN 1 ELSE 0)
         + 2 * BitOr(a \div 2, b \div 2, n - 1)

WordAnd(v, w) == [hi |-> BitAnd(v.hi, w.hi, 8), lo |-> BitAnd(v.lo, w.lo, 24)]
WordOr(v, w) == [hi |-> BitOr(v.hi, w.hi, 8), lo |-> BitOr(v.lo, w.lo, 24)]
WordNot(w) == [hi |-> (Pow8 - 1) - w.hi, lo |-> (Pow24 - 1) - w.lo]
WordZero == [hi |-> 0, lo |-> 0]

\* fd as usize: the two's complement bits of a RawFd (i32)
AsUsize(fd) == [hi |-> (fd \div Pow24) % Pow8, lo |-> fd % Pow24]

\* word as RawFd: the bits read as an i32
AsRawFd(w) ==
    IF w.hi >= 128 THEN (w.hi - Pow8) * Pow24 + w.lo ELSE w.hi * Pow24 + w.lo

CONNS == [hi |-> 128, lo |-> 0]
EVENTS == [hi |-> 64, lo |-> 0]
REQUEST == [hi |-> 32, lo |-> 0]
FD_MASK == Pow24 - 1
TAG_MASK == WordNot(AsUsize(FD_MASK))

NoToken == [kind |-> "none", fd |-> 0]
NoWord == [hi |-> 0, lo |-> 0]
Panic == [kind |-> "panic", fd |-> 0]

\* HubToken::for_request: the assertion holds
ForRequestOk(fd) == WordAnd(AsUsize(fd), WordNot(AsUsize(FD_MASK))) = WordZero

\* impl From<HubToken> for Token
HubTokenToToken(tok) ==
    CASE tok.kind = "Conns" -> CONNS
      [] tok.kind = "Events" -> EVENTS
      [] tok.kind = "Request" -> WordOr(REQUEST, AsUsize(tok.fd))

\* the conversion back without the mask on the descriptor
TokenToHubTokenNoMask(w) ==
    LET tag == WordAnd(w, TAG_MASK) IN
    CASE tag = CONNS -> [kind |-> "Conns", fd |-> 0]
      [] tag = EVENTS -> [kind |-> "Events", fd |-> 0]
      [] tag = REQUEST -> [kind |-> "Request", fd |-> AsRawFd(w)]
      [] OTHER -> Panic

\* impl From<Token> for HubToken
TokenToHubToken(w) ==
    LET tag == WordAnd(w, TAG_MASK) IN
    CASE tag = CONNS -> [kind |-> "Conns", fd |-> 0]
      [] tag = EVENTS -> [kind |-> "Events", fd |-> 0]
      [] tag = REQUEST ->
            [kind |-> "Request", fd |-> AsRawFd(WordAnd(w, AsUsize(FD_MASK)))]
      [] OTHER -> Panic


(***************************************************************************)
(* State of the system.                                                    *)
(***************************************************************************)
VARIABLES
    bound,       \* the limits of the behaviour: [conns, subs, events], fixed by Init
    hubpc,       \* where HubTask::run is: "poll", "conns" (in handle_conns), "chan" (in handle_chan)
    backlog,     \* connections waiting on the listening socket
    pendConns,   \* readiness edge of HubToken::Conns not yet taken by the loop
    pendEvents,  \* readiness edge of HubToken::Events not yet taken by the loop
    registered,  \* descriptors registered in the poll under HubToken::Request(fd)
    readable,    \* registered descriptors whose readiness edge is pending
    stuck,       \* descriptors whose peer is slow: a connection whose request has arrived
                 \* in part, a subscriber that has stopped reading (its buffers are full)
    reading,     \* the descriptor the hub is blocked on inside HttpRequest::new, or 0
    peerClosed,  \* subscriber descriptors whose peer has peerClosed its end of the connection
    sendersAlive,\* some Sender of the hub channel has not been dropped
    hubQ,        \* the hub channel (tx_hub -> rx_hub), FIFO
    recvQ,       \* the receiver channel (tx_recv -> rx_recv), the SetControlFreq values on it
    recvAlive,   \* the Receiver still holds rx_recv
    state,       \* HubTask::state
    streamers,   \* HubTask::streamers, as the descriptors of the streams
    sock,        \* per subscriber descriptor, the SSE messages written to it
    subAt,       \* per subscriber descriptor, how many events the hub had processed when it subscribed
    putAt,       \* per subscriber descriptor, how many SSE messages it had been written when the
                 \* latest PUT /ctlfreq was forwarded (-1: it was not subscribed then)
    hist,        \* the events handle_event has processed, in order
    lastPut,     \* the value of the latest PUT /ctlfreq forwarded, as a set of at most one
    out          \* what the last step did: the response written, the fan-out, ...

hubVars == <<bound, hubpc, backlog, pendConns, pendEvents, registered, readable, stuck,
             reading, peerClosed, sendersAlive, hubQ, recvQ,
             recvAlive, state, streamers, sock, subAt, putAt, hist, lastPut, out>>

\* ReplayReceiver (src/replay.rs), the single-threaded replay of a baseband file
VARIABLES
    replaypc,    \* "read": inside the loop of replay; "done": after its break
    file,        \* the samples of the replay file that read has not returned yet
    buf,         \* the read buffer of replay, as samples
    audio,       \* the frames AudioOutput::play was given, in order
    yielded      \* the events MessageReceiver::feed has returned, in order

replayVars == <<replaypc, file, buf, audio, yielded>>

\* RecvTask (src/recv.rs) with its ReceiverPolicy and TalkgroupSelection
VARIABLES
    args,        \* the command line: freq, nohop and the three windows in samples
    rx,          \* the Receiver: mode, ctlFreq, hop, policy, talkgroups, channels, queued
    puts,        \* the frequencies SetControlFreq commands have carried so far
    seen,        \* the qualifying grants observed in the Collecting window that is open
    sinceHop,    \* samples since the hop, while no voice frame has arrived after it
    voiced,      \* a voice frame has arrived since the hop
    rxOut        \* the last step of the Receiver: the Tunes it sent to the Controller,
                 \* the window that expired, the grants seen in a Collecting window it closed

recvVars == <<args, rx, puts, seen, sinceHop, voiced, rxOut>>

\* the sample path of main: ReadTask -> iq channel -> DemodTask -> RecvTask
VARIABLES
    produced,    \* blocks the SDR driver has called the Reader back with so far
    iq,          \* the iq channel (tx_read, rx_read): blocks sent and not yet received
    accepted,    \* every block the Reader's send put on the iq channel, in order
    drops,       \* the drop counter of the Reader
    bb,          \* baseband chunks the Demodulator sent that the Receiver has not taken
    delivered    \* the baseband chunks the Receiver has taken, in order

pipeVars == <<produced, iq, accepted, drops, bb, delivered>>

\* one HubToken on its way through the poll: HubToken -> Token -> HubToken
VARIABLES
    tokpc,       \* "start", "made", "encoded", "decoded", or "panic"
    tokIn,       \* what the hub is about to register: the variant and the descriptor
    htok,        \* the HubToken that was built
    word,        \* the Token it was converted to
    back         \* the HubToken the Token was converted back to

tokVars == <<tokpc, tokIn, htok, word, back>>

\* handle_poll and handle_conns statement by statement: who holds a descriptor
VARIABLES
    owned,       \* descriptors a TcpStream object of handle_poll owns
    cur,         \* the descriptor of the Request event handle_poll is handling, or 0
    connOf,      \* per descriptor, the number of the accepted connection it stands for
    accepts,     \* connections accept_std has returned so far
    handled      \* the connections handle_stream was called for, in order

pollVars == <<owned, cur, connOf, accepts, handled>>

restVars == <<pipeVars, tokVars, pollVars>>

\* the state of the parts of the program other than the hub and its channels
otherVars == <<replayVars, recvVars, restVars>>
\* ... other than the replay, other than the Receiver
exReplay == <<hubVars, recvVars, restVars>>
exRecv == <<hubVars, replayVars, restVars>>
\* ... other than the sample path, other than the token
exPipe == <<hubVars, replayVars, recvVars, tokVars, pollVars>>
exTok == <<hubVars, replayVars, recvVars, pipeVars, pollVars>>

vars == <<bound, hubpc, backlog, pendConns, pendEvents, registered, readable, stuck, reading,
          peerClosed, sendersAlive, hubQ, recvQ,
          recvAlive, state, streamers, sock, subAt, putAt, hist, lastPut,
          out, otherVars>>


connVars == <<backlog, pendConns, registered, readable>>
slowVars == <<stuck, reading>>
lifeVars == <<peerClosed, sendersAlive>>
subVars == <<streamers, sock, subAt, putAt>>

\* the value of out after a step that writes nothing to a client
Quiet == [op |-> "none"]

Start ==
    /\ hubpc = "poll"
    /\ backlog = 0
    /\ pendConns = FALSE
    /\ pendEvents = FALSE
    /\ registered = {}
    /\ readable = {}
    /\ stuck = {}
    /\ reading = 0
    /\ peerClosed = {}
    /\ sendersAlive = TRUE
    /\ hubQ = <<>>
    /\ recvQ = <<>>
    /\ recvAlive = TRUE
    /\ state = StateDefault
    /\ streamers = <<>>
    /\ sock = [fd \in Fds |-> <<>>]
    /\ subAt = [fd \in Fds |-> 0]
    /\ putAt = [fd \in Fds |-> -1]
    /\ hist = <<>>
    /\ lastPut = {}
    /\ out = Quiet

\* the process was not started with --replay: the replay loop never runs
ReplayIdle ==
    /\ replaypc = "done"
    /\ file = <<>>
    /\ buf = [i \in 1 .. BufLen |-> ZeroSample]
    /\ audio = <<>>
    /\ yielded = <<>>

\* the command line of the model: the initial control frequency, --nohop, and
\* the three timeouts in samples
ArgsSet ==
    {[freq |-> 851012500, nohop |-> b, tgselect |-> TgselectWindow,
      watchdog |-> WatchdogWindow, pause |-> PauseWindow] : b \in BOOLEAN}

\* the Receiver as main creates it
RecvStart ==
    /\ rx = RecvTaskNew(args)
    /\ puts = {}
    /\ seen = {}
    /\ sinceHop = 0
    /\ voiced = FALSE
    /\ rxOut = [kind |-> "start", tunes |-> <<>>, expired |-> "", seen |-> {}]

\* the Receiver seen from the hub: only its end of the two channels matters
RecvIdle ==
    /\ args = [freq |-> 851012500, nohop |-> TRUE, tgselect |-> TgselectWindow,
               watchdog |-> WatchdogWindow, pause |-> PauseWindow]
    /\ RecvStart

\* no sample has arrived from the SDR
PipeIdle ==
    /\ produced = 0
    /\ iq = <<>>
    /\ accepted = <<>>
    /\ drops = 0
    /\ bb = <<>>
    /\ delivered = <<>>

\* the tokens of the listener and of the channel (HubTask::new) have made
\* their way; no descriptor is on its way
TokIdle ==
    /\ tokpc = "start"
    /\ tokIn = [kind |-> "Conns", fd |-> 0]
    /\ htok = NoToken
    /\ word = NoWord
    /\ back = NoToken

\* no connection has been accepted
PollIdle ==
    /\ owned = {}
    /\ cur = 0
    /\ connOf = [fd \in Fds |-> 0]
    /\ accepts = 0
    /\ handled = <<>>

RestIdle == PipeIdle /\ TokIdle /\ PollIdle

\* the parts of the program that take no step in the behaviours of the hub
OthersIdle == ReplayIdle /\ RecvIdle /\ RestIdle

Init ==
    /\ bound = [conns |-> MaxConns, subs |-> MaxSubs, events |-> MaxEvents]
    /\ Start
    /\ OthersIdle

\* the behaviours in which the clients fill the subscriber set
InitCap ==
    /\ bound = [conns |-> CapConns, subs |-> StreamersCap + 1, events |-> CapEvents]
    /\ Start
    /\ OthersIdle

(***************************************************************************)
(* The environment of the hub: HTTP clients, Receiver, Demodulator.        *)
(***************************************************************************)
\* a client connects to the listening socket
Connect ==
    /\ backlog + Cardinality(registered) < bound.conns
    /\ backlog' = backlog + 1
    /\ pendConns' = TRUE
    /\ out' = Quiet
    /\ UNCHANGED <<bound, hubpc, pendEvents, registered, readable, hubQ, recvQ, recvAlive,
                   state, streamers, sock, subAt, putAt, hist, lastPut>>
    /\ UNCHANGED otherVars
    /\ UNCHANGED <<slowVars, lifeVars>>

\* the client of an accepted connection sends its request
ClientSend(fd) ==
    /\ fd \in registered \ readable
    /\ readable' = readable \cup {fd}
    /\ out' = Quiet
    /\ UNCHANGED <<bound, hubpc, backlog, pendConns, pendEvents, registered, hubQ, recvQ,
                   recvAlive, state, streamers, sock, subAt, putAt, hist, lastPut>>
    /\ UNCHANGED otherVars
    /\ UNCHANGED <<slowVars, lifeVars>>

EventBudget == Len(hist) + Len(hubQ) < bound.events

\* a hub channel made by sync_channel(1)
HubChanFullSync(q) == Len(q) >= 1

\* mio_extras::channel::channel() is unbounded: a send never finds it full
HubChanFull(q) == FALSE

\* handle_event has an event to write and one of the subscribers has stopped
\* reading: the write into its blocking socket does not return
WriteBlocked ==
    /\ hubpc = "chan"
    /\ hubQ # <<>>
    /\ StreamEvent(EventState(state, Head(hubQ)), Head(hubQ)) # <<>>
    /\ Range(streamers) \cap stuck # {}

\* the hub thread is inside a read or a write that does not return
HubBlocked == hubpc = "read" \/ WriteBlocked

\* the value of out after a send on the hub channel
SendOut == IF HubBlocked THEN [op |-> "send"] ELSE Quiet

\* the Receiver or the Demodulator sends an event on the hub channel
Emit(e) ==
    /\ sendersAlive
    /\ EventBudget
    /\ ~HubChanFull(hubQ)
    /\ hubQ' = Append(hubQ, e)
    /\ pendEvents' = TRUE
    /\ out' = SendOut
    /\ UNCHANGED <<bound, hubpc, connVars, recvQ, recvAlive, state, subVars, hist, lastPut>>
    /\ UNCHANGED otherVars
    /\ UNCHANGED <<slowVars, lifeVars>>

\* the Receiver takes SetControlFreq(f) from its channel and commits it:
\* it reports the new control frequency on the hub channel
RecvSetControlFreq ==
    /\ recvAlive
    /\ sendersAlive
    /\ recvQ # <<>>
    /\ EventBudget
    /\ ~HubChanFull(hubQ)
    /\ recvQ' = Tail(recvQ)
    /\ hubQ' = Append(hubQ, UpdateCtlFreq(Head(recvQ)))
    /\ pendEvents' = TRUE
    /\ out' = SendOut
    /\ UNCHANGED <<bound, hubpc, connVars, recvAlive, state, subVars, hist, lastPut>>
    /\ UNCHANGED otherVars
    /\ UNCHANGED <<slowVars, lifeVars>>

\* the Receiver task ends and drops rx_recv
RecvExit ==
    /\ recvAlive
    /\ recvAlive' = FALSE
    /\ out' = Quiet
    /\ UNCHANGED <<bound, hubpc, connVars, pendEvents, hubQ, recvQ, state, subVars, hist, lastPut>>
    /\ UNCHANGED otherVars
    /\ UNCHANGED <<slowVars, lifeVars>>

(***************************************************************************)
(* HubTask::run: one poll event at a time.                                 *)
(***************************************************************************)
\* handle_poll, HubToken::Conns: enter handle_conns
PollConns ==
    /\ hubpc = "poll"
    /\ pendConns
    /\ pendConns' = FALSE
    /\ hubpc' = "conns"
    /\ out' = Quiet
    /\ UNCHANGED <<bound, backlog, pendEvents, registered, readable, hubQ, recvQ, recvAlive,
                   state, subVars, hist, lastPut>>
    /\ UNCHANGED otherVars
    /\ UNCHANGED <<slowVars, lifeVars>>

\* handle_conns, one turn of the loop with accept_std Ok: the stream becomes
\* a raw descriptor registered under HubToken::Request(fd)
AcceptConn ==
    /\ hubpc = "conns"
    /\ backlog > 0
    /\ backlog' = backlog - 1
    /\ registered' = registered \cup {NextFd(registered \cup Range(streamers))}
    /\ out' = Quiet
    /\ UNCHANGED <<bound, hubpc, pendConns, pendEvents, readable, hubQ, recvQ, recvAlive,
                   state, subVars, hist, lastPut>>
    /\ UNCHANGED otherVars
    /\ UNCHANGED <<slowVars, lifeVars>>

\* handle_conns, accept_std reports WouldBlock: back to the poll
ConnsDone ==
    /\ hubpc = "conns"
    /\ backlog = 0
    /\ hubpc' = "poll"
    /\ out' = Quiet
    /\ UNCHANGED <<bound, connVars, pendEvents, hubQ, recvQ, recvAlive, state, subVars,
                   hist, lastPut>>
    /\ UNCHANGED otherVars
    /\ UNCHANGED <<slowVars, lifeVars>>

\* handle_poll, HubToken::Events: enter handle_chan
PollEvents ==
    /\ hubpc = "poll"
    /\ pendEvents
    /\ pendEvents' = FALSE
    /\ hubpc' = "chan"
    /\ out' = Quiet
    /\ UNCHANGED <<bound, connVars, hubQ, recvQ, recvAlive, state, subVars, hist, lastPut>>
    /\ UNCHANGED otherVars
    /\ UNCHANGED <<slowVars, lifeVars>>

\* push that makes room by dropping the oldest stream
PushEvict(strs, fd) == IF strs = <<>> THEN <<fd>> ELSE Append(Tail(strs), fd)

\* ArrayVec::push
Push(strs, fd) == Append(strs, fd)

\* a fan-out that stops writing an event after its first message
DeliverFirst(log, msgs, failAt) ==
    IF failAt = 0 THEN log \o SubSeq(msgs, 1, IF msgs = <<>> THEN 0 ELSE 1) ELSE <<>>

\* what one subscriber's socket holds after the fan-out of msgs; a subscriber
\* whose write failed is dropped and its descriptor closed
Deliver(log, msgs, failAt) == IF failAt = 0 THEN log \o msgs ELSE <<>>

\* handle_chan, try_recv Ok(e): handle_event(e)
ChanRecv ==
    /\ hubpc = "chan"
    /\ hubQ # <<>>
    /\ ~WriteBlocked
    /\ LET e == Head(hubQ)
           st == EventState(state, e)
           msgs == StreamEvent(st, e)
           subs == Range(streamers)
       IN  \E failAt \in [subs -> 0 .. Len(msgs)] :
              /\ state' = st
              /\ streamers' = KeepAlive(streamers, failAt)
              /\ sock' = [fd \in Fds |->
                            IF fd \in subs THEN Deliver(sock[fd], msgs, failAt[fd])
                            ELSE sock[fd]]
              /\ subAt' = [fd \in Fds |->
                            IF fd \in subs /\ failAt[fd] # 0 THEN 0 ELSE subAt[fd]]
              /\ putAt' = [fd \in Fds |->
                            IF fd \in subs /\ failAt[fd] # 0 THEN -1 ELSE putAt[fd]]
              /\ peerClosed' = peerClosed \ {fd \in subs : failAt[fd] # 0}
              /\ out' = [op |-> "event",
                         failed |-> {fd \in subs : failAt[fd] # 0}]
    /\ hubQ' = Tail(hubQ)
    /\ hist' = Append(hist, Head(hubQ))
    /\ UNCHANGED <<bound, hubpc, connVars, pendEvents, recvQ, recvAlive, lastPut>>
    /\ UNCHANGED otherVars
    /\ UNCHANGED <<slowVars, sendersAlive>>

\* handle_chan, try_recv Empty: back to the poll
ChanEmpty ==
    /\ hubpc = "chan"
    /\ hubQ = <<>>
    /\ sendersAlive
    /\ hubpc' = "poll"
    /\ out' = Quiet
    /\ UNCHANGED <<bound, connVars, pendEvents, hubQ, recvQ, recvAlive, state, subVars,
                   hist, lastPut>>
    /\ UNCHANGED otherVars
    /\ UNCHANGED <<slowVars, lifeVars>>

\* each distinct input once: the body is read by PUT /ctlfreq alone, try_clone
\* and start_stream run for GET /subscribe alone
InputOnce(req, cloneOk, startOk) ==
    LET sub == req.parsed /\ req.ver = "1.1" /\ req.method = "GET" /\ req.path = "/subscribe"
        put == req.parsed /\ req.ver = "1.1" /\ req.method = "PUT" /\ req.path = "/ctlfreq"
    IN  /\ ~sub => cloneOk /\ startOk
        /\ ~cloneOk => startOk
        /\ ~put => req.body = [json |-> FALSE, ctlfreq |-> 851012500]
        /\ (put /\ ~req.body.json) => req.body.ctlfreq = 851012500

\* handle_stream(stream) for the stream of descriptor fd: the request on it is
\* handled and the stream closed when handle_stream returns; a subscriber
\* lives on as the clone made by try_clone
HandleStream(fd) ==
    \E req \in Requests, cloneOk \in BOOLEAN, startOk \in BOOLEAN, perr \in ParseErrors :
          LET r == HandleRequest(state, streamers, recvAlive, req, cloneOk, startOk, perr)
              dup == NextFd(registered \cup Range(streamers) \cup {fd})
          IN  /\ InputOnce(req, cloneOk, startOk)
              /\ r.send => Len(recvQ) < MaxRecvQ
              /\ r.push => Len(streamers) < bound.subs
              /\ streamers' = IF r.push THEN Push(streamers, dup) ELSE streamers
              /\ sock' = IF r.push THEN [sock EXCEPT ![dup] = <<>>] ELSE sock
              /\ subAt' = IF r.push THEN [subAt EXCEPT ![dup] = Len(hist)] ELSE subAt
              /\ putAt' = IF r.send
                          THEN [s \in Fds |-> IF s \in Range(streamers) THEN Len(sock[s])
                                              ELSE -1]
                          ELSE putAt
              /\ recvQ' = IF r.send THEN Append(recvQ, req.body.ctlfreq) ELSE recvQ
              /\ lastPut' = IF r.send THEN {req.body.ctlfreq} ELSE lastPut
              /\ out' = [op |-> "request", parsed |-> req.parsed, ver |-> req.ver,
                         method |-> req.method, path |-> req.path,
                         put |-> IF req.parsed /\ req.method = "PUT" /\ req.body.json
                                 THEN req.body.ctlfreq ELSE -1,
                         cloned |-> cloneOk,
                         status |-> r.status, ctlfreq |-> r.ctlfreq,
                         cors |-> r.cors, sse |-> r.sse]

\* handle_poll, HubToken::Request(fd): the descriptor leaves the poll and
\* handle_stream runs on its stream
Request(fd) ==
    /\ fd \notin stuck
    /\ \/ hubpc = "poll" /\ fd \in readable
       \/ hubpc = "read" /\ reading = fd
    /\ HandleStream(fd)
    /\ registered' = registered \ {fd}
    /\ readable' = readable \ {fd}
    /\ hubpc' = "poll"
    /\ reading' = 0
    /\ UNCHANGED <<bound, backlog, pendConns, pendEvents, stuck, hubQ, recvAlive, state, hist>>
    /\ UNCHANGED lifeVars
    /\ UNCHANGED otherVars

Next ==
    \/ Connect
    \/ \E fd \in Fds : ClientSend(fd)
    \/ \E e \in EmitEvents : Emit(e)
    \/ RecvSetControlFreq
    \/ RecvExit
    \/ PollConns
    \/ AcceptConn
    \/ ConnsDone
    \/ PollEvents
    \/ ChanRecv
    \/ ChanEmpty
    \/ \E fd \in Fds : Request(fd)

Spec == Init /\ [][Next]_vars

SpecCap == InitCap /\ [][Next]_vars

(***************************************************************************)
(* Slow clients. accept_std returns streams in blocking mode, so the hub   *)
(* thread waits inside a read or a write for a peer that is slow.          *)
(***************************************************************************)
slowFrame ==
    <<bound, backlog, pendConns, pendEvents, hubQ, recvQ, recvAlive, state, subVars, hist,
      lastPut, lifeVars, otherVars>>

\* the client of an accepted connection sends the first part of its request
ClientSendPart(fd) ==
    /\ fd \in registered \ readable
    /\ readable' = readable \cup {fd}
    /\ stuck' = stuck \cup {fd}
    /\ out' = Quiet
    /\ UNCHANGED <<hubpc, registered, reading, slowFrame>>

\* a subscriber stops reading its stream
SubscriberStall(fd) ==
    /\ fd \in Range(streamers) \ stuck
    /\ stuck' = stuck \cup {fd}
    /\ out' = Quiet
    /\ UNCHANGED <<hubpc, registered, readable, reading, slowFrame>>

\* the slow peer sends the rest of its request, or reads its stream again
ClientResume(fd) ==
    /\ fd \in stuck
    /\ stuck' = stuck \ {fd}
    /\ out' = Quiet
    /\ UNCHANGED <<hubpc, registered, readable, reading, slowFrame>>

\* handle_poll, HubToken::Request(fd), on a request that has arrived in part:
\* the descriptor is deregistered and HttpRequest::new waits in read
RequestBlock(fd) ==
    /\ hubpc = "poll"
    /\ fd \in readable \cap stuck
    /\ hubpc' = "read"
    /\ reading' = fd
    /\ registered' = registered \ {fd}
    /\ readable' = readable \ {fd}
    /\ out' = Quiet
    /\ UNCHANGED <<stuck, slowFrame>>

NextSlow ==
    \/ Next
    \/ \E fd \in Fds : ClientSendPart(fd)
    \/ \E fd \in Fds : SubscriberStall(fd)
    \/ \E fd \in Fds : ClientResume(fd)
    \/ \E fd \in Fds : RequestBlock(fd)

InitSlow ==
    /\ bound = [conns |-> MaxConns, subs |-> SlowSubs, events |-> MaxEvents]
    /\ Start
    /\ OthersIdle

SpecSlow == InitSlow /\ [][NextSlow]_vars

(***************************************************************************)
(* The peers of the hub going away, and the hub thread under a fair        *)
(* scheduler: a step of HubTask::run that can be taken is taken.           *)
(***************************************************************************)
lifeFrame ==
    <<bound, backlog, registered, readable, hubQ, recvQ, recvAlive, state, subVars, hist,
      lastPut, slowVars, otherVars>>

\* the client of a subscriber stream closes its end of the connection; the
\* descriptor stays open and in streamers, where no read ever sees the EOF
PeerClose(fd) ==
    /\ fd \in Range(streamers) \ peerClosed
    /\ peerClosed' = peerClosed \cup {fd}
    /\ out' = Quiet
    /\ UNCHANGED <<hubpc, pendConns, pendEvents, sendersAlive, lifeFrame>>

\* the last Sender of the hub channel is dropped, which wakes the receiving end
SendersDrop ==
    /\ sendersAlive
    /\ sendersAlive' = FALSE
    /\ pendEvents' = TRUE
    /\ out' = Quiet
    /\ UNCHANGED <<hubpc, pendConns, peerClosed, lifeFrame>>

\* handle_chan, try_recv Disconnected: Err(()), and the expect of handle_poll
\* panics: the hub thread ends
ChanDisconnected ==
    /\ hubpc = "chan"
    /\ hubQ = <<>>
    /\ ~sendersAlive
    /\ hubpc' = "panic"
    /\ out' = Quiet
    /\ UNCHANGED <<pendConns, pendEvents, peerClosed, sendersAlive, lifeFrame>>

\* the steps of the hub thread
HubStep ==
    \/ PollConns
    \/ AcceptConn
    \/ ConnsDone
    \/ PollEvents
    \/ ChanRecv
    \/ ChanEmpty
    \/ ChanDisconnected
    \/ \E fd \in Fds : Request(fd)
    \/ \E fd \in Fds : RequestBlock(fd)

\* the scheduling of the hub thread: a step it can take is taken, and a poll
\* reports every token that is ready, so none waits behind the others for ever
HubFair ==
    /\ WF_vars(HubStep)
    /\ SF_vars(PollConns)
    /\ SF_vars(PollEvents)
    /\ \A fd \in Fds : SF_vars(Request(fd) \/ RequestBlock(fd))

NextLife ==
    \/ Next
    \/ \E fd \in Fds : PeerClose(fd)
    \/ SendersDrop
    \/ ChanDisconnected

InitLife ==
    /\ bound = [conns |-> LifeConns, subs |-> LifeSubs, events |-> LifeEvents]
    /\ Start
    /\ OthersIdle

\* clients that send their requests whole and read their streams
SpecLife == InitLife /\ [][NextLife]_vars /\ HubFair

NextLifeSlow ==
    \/ NextSlow
    \/ \E fd \in Fds : PeerClose(fd)
    \/ SendersDrop
    \/ ChanDisconnected

\* clients of any kind
SpecLifeSlow == InitLife /\ [][NextLifeSlow]_vars /\ HubFair

(***************************************************************************)
(* ReplayReceiver::replay.                                                 *)
(***************************************************************************)
\* the replay files: every sequence of at most MaxFile samples
RECURSIVE SeqsUpTo(_, _)
SeqsUpTo(S, n) ==
    IF n = 0 THEN {<<>>}
    ELSE LET shorter == SeqsUpTo(S, n - 1)
         IN  shorter \cup {Append(q, x) : q \in shorter, x \in S}

ReplayInit ==
    /\ replaypc = "read"
    /\ file \in SeqsUpTo(Samples, MaxFile)
    /\ buf = [i \in 1 .. BufLen |-> ZeroSample]
    /\ audio = <<>>
    /\ yielded = <<>>

\* one turn of the loop with read returning size > 0: the first size samples
\* of buf are overwritten, and the whole of buf is fed
ReplayRead ==
    /\ replaypc = "read"
    /\ file # <<>>
    /\ \E size \in 1 .. (IF Len(file) < BufLen THEN Len(file) ELSE BufLen) :
          LET filled == [i \in 1 .. BufLen |-> IF i <= size THEN file[i] ELSE buf[i]]
              r == Feed([audio |-> audio, yielded |-> yielded], filled)
          IN  /\ buf' = filled
              /\ file' = SubSeq(file, size + 1, Len(file))
              /\ audio' = r.audio
              /\ yielded' = r.yielded
    /\ UNCHANGED <<replaypc, exReplay>>

\* read returns 0 at the end of the file: break
ReplayEof ==
    /\ replaypc = "read"
    /\ file = <<>>
    /\ replaypc' = "done"
    /\ UNCHANGED <<file, buf, audio, yielded, exReplay>>

NextReplay == ReplayRead \/ ReplayEof

\* the hub is not started in replay mode (main returns after replay)
HubIdle ==
    /\ bound = [conns |-> 0, subs |-> 0, events |-> 0]
    /\ Start

\* the process started with --replay
InitReplay == HubIdle /\ RecvIdle /\ RestIdle /\ ReplayInit

SpecReplay == InitReplay /\ [][NextReplay]_vars

(***************************************************************************)
(* RecvTask::run: one baseband sample or one command at a time.            *)
(***************************************************************************)
RecvInit ==
    /\ args \in ArgsSet
    /\ RecvStart

\* one baseband sample: the decoder's event is interpreted, then the policy
\* counts the sample and acts on the expiry of its window
RecvSample(ev) ==
    LET r1 == OnEvent(rx, ev)
        r2 == OnTick(r1)
        collecting == r1.policy.mode = "Collecting"
        opened == rx.policy.mode = "Idle" /\ collecting
        seenNow == IF collecting /\ ev.kind = "Grant" /\ ev.arg.tg # ReservedTalkgroup
                   THEN (IF opened THEN {} ELSE seen) \cup {ev.arg}
                   ELSE seen
        closed == collecting /\ r2.rx.policy.mode # "Collecting"
        hopped == closed /\ r2.rx.mode = "TrafficListening"
        voicedNow == IF hopped \/ r2.rx.mode # "TrafficListening" THEN FALSE
                     ELSE voiced \/ ev.kind = "Voice"
    IN  /\ rx' = r2.rx
        /\ rxOut' = [kind |-> "sample", tunes |-> r2.tunes,
                     expired |-> IF PolicyExpired(PolicyTick(r1.policy))
                                 THEN r1.policy.mode ELSE "",
                     seen |-> IF closed THEN seenNow ELSE {}]
        /\ seen' = IF closed THEN {} ELSE seenNow
        /\ voiced' = voicedNow
        /\ sinceHop' = IF hopped \/ r2.rx.mode # "TrafficListening" \/ voicedNow THEN 0
                       ELSE sinceHop + 1
        /\ UNCHANGED <<args, puts, exRecv>>

\* a SetControlFreq(f) taken from the receiver channel
RecvCommand(f) ==
    LET r == OnSetControlFreq(rx, f)
    IN  /\ rx' = r.rx
        /\ rxOut' = [kind |-> "command", tunes |-> r.tunes, expired |-> "", seen |-> {}]
        /\ puts' = puts \cup {f}
        /\ UNCHANGED <<args, seen, sinceHop, voiced, exRecv>>

NextRecv ==
    \/ \E ev \in DecoderEvents : RecvSample(ev)
    \/ \E f \in Freqs : RecvCommand(f)

\* the Receiver alone, fed by the decoder and by SetControlFreq commands
InitRecv == HubIdle /\ ReplayIdle /\ RestIdle /\ RecvInit

SpecRecv == InitRecv /\ [][NextRecv]_vars

(***************************************************************************)
(* The sample path: the driver's callback in ReadTask, DemodTask::run and  *)
(* the receiving end of RecvTask::run, each one block at a time.           *)
(***************************************************************************)

\* the driver calls the Reader back with one block, which the Reader sends
ReaderBlock(d) ==
    /\ produced < MaxBlocks
    /\ LET r == ReaderSend(iq, accepted, drops, [seq |-> produced + 1, data |-> d]) IN
        /\ iq' = r.iq
        /\ accepted' = r.accepted
        /\ drops' = r.drops
    /\ produced' = produced + 1
    /\ UNCHANGED <<bb, delivered, exPipe>>

\* the Demodulator receives one block and sends its baseband on
DemodStep ==
    /\ iq # <<>>
    /\ bb' = Append(bb, Demod(Head(iq)))
    /\ iq' = Tail(iq)
    /\ UNCHANGED <<produced, accepted, drops, delivered, exPipe>>

\* the Receiver receives one baseband chunk
RecvTake ==
    /\ bb # <<>>
    /\ delivered' = Append(delivered, Head(bb))
    /\ bb' = Tail(bb)
    /\ UNCHANGED <<produced, iq, accepted, drops, exPipe>>

NextPipe ==
    \/ \E d \in BlockData : ReaderBlock(d)
    \/ DemodStep
    \/ RecvTake

InitPipe == HubIdle /\ ReplayIdle /\ RecvIdle /\ TokIdle /\ PollIdle /\ PipeIdle

SpecPipe == InitPipe /\ [][NextPipe]_vars

(***************************************************************************)
(* One token: built, converted to a Token at register, converted back in   *)
(* handle_poll.                                                            *)
(***************************************************************************)

\* the descriptors tried: the lowest, the highest of 24 bits, the first
\* beyond, some with a bit of the tag set, and negative ones
FdSamples ==
    (0 .. MaxFdLow)
    \cup {FD_MASK - k : k \in 0 .. MaxFdLow}
    \cup {Pow24 + k : k \in 0 .. MaxFdLow}
    \cup {h * Pow24 + k : h \in {32, 33, 64, 96, 127}, k \in {0, 5, FD_MASK}}
    \cup {-1 - k : k \in 0 .. MaxFdLow}
    \cup {(0 - 128) * Pow24, (0 - 32) * Pow24 + 5}

TokInputs ==
    {[kind |-> k, fd |-> 0] : k \in {"Conns", "Events"}}
    \cup {[kind |-> "Request", fd |-> f] : f \in FdSamples}

TokInit ==
    /\ tokpc = "start"
    /\ tokIn \in TokInputs
    /\ htok = NoToken
    /\ word = NoWord
    /\ back = NoToken

\* HubToken::Conns, HubToken::Events, or HubToken::for_request(fd)
TokMake ==
    /\ tokpc = "start"
    /\ IF tokIn.kind = "Request" /\ ~ForRequestOk(tokIn.fd)
       THEN /\ tokpc' = "panic"
            /\ htok' = htok
       ELSE /\ tokpc' = "made"
            /\ htok' = tokIn
    /\ UNCHANGED <<tokIn, word, back, exTok>>

\* register(.., tok.into(), ..)
TokEncode ==
    /\ tokpc = "made"
    /\ word' = HubTokenToToken(htok)
    /\ tokpc' = "encoded"
    /\ UNCHANGED <<tokIn, htok, back, exTok>>

\* handle_poll: match tok.into()
TokDecode ==
    /\ tokpc = "encoded"
    /\ back' = TokenToHubToken(word)
    /\ tokpc' = IF back' = Panic THEN "panic" ELSE "decoded"
    /\ UNCHANGED <<tokIn, htok, word, exTok>>

NextTok == TokMake \/ TokEncode \/ TokDecode

InitTok == HubIdle /\ ReplayIdle /\ RecvIdle /\ PipeIdle /\ PollIdle /\ TokInit

SpecToken == InitTok /\ [][NextTok]_vars

(***************************************************************************)
(* handle_conns and the Request arm of handle_poll, one statement at a     *)
(* time: accept_std and register; from_raw_fd, deregister, handle_stream.  *)
(***************************************************************************)
pollFrame ==
    <<bound, pendEvents, hubQ, recvAlive, state, hist, slowVars, lifeVars, replayVars,
      recvVars, pipeVars, tokVars>>

\* handle_conns, one turn of the loop with accept_std Ok (lines 180-194): the
\* stream gives up its descriptor (into_raw_fd), which is registered
AcceptRegister ==
    /\ hubpc = "conns"
    /\ backlog > 0
    /\ accepts < MaxAccepts
    /\ LET fd == NextFd(registered \cup Range(streamers) \cup owned) IN
        /\ registered' = registered \cup {fd}
        /\ connOf' = [connOf EXCEPT ![fd] = accepts + 1]
    /\ backlog' = backlog - 1
    /\ accepts' = accepts + 1
    /\ out' = Quiet
    /\ UNCHANGED <<hubpc, pendConns, readable, recvQ, subVars, lastPut, owned, cur, handled,
                   pollFrame>>

\* handle_poll, Request(fd), line 167: TcpStream::from_raw_fd(fd)
ReqFromRawFd(fd) ==
    /\ hubpc = "poll"
    /\ fd \in readable
    /\ owned' = owned \cup {fd}
    /\ cur' = fd
    /\ hubpc' = "own"
    /\ out' = Quiet
    /\ UNCHANGED <<backlog, pendConns, registered, readable, recvQ, subVars, lastPut, connOf,
                   accepts, handled, pollFrame>>

\* handle_poll, Request(fd), line 169: events.deregister(&EventedFd(&fd))
ReqDeregister ==
    /\ hubpc = "own"
    /\ registered' = registered \ {cur}
    /\ readable' = readable \ {cur}
    /\ hubpc' = "stream"
    /\ out' = Quiet
    /\ UNCHANGED <<backlog, pendConns, recvQ, subVars, lastPut, pollVars, pollFrame>>

\* handle_poll, Request(fd), line 172: handle_stream(stream), at whose return
\* the stream is dropped and its descriptor closed
ReqHandleStream ==
    /\ hubpc = "stream"
    /\ HandleStream(cur)
    /\ handled' = Append(handled, connOf[cur])
    /\ owned' = owned \ {cur}
    /\ connOf' = [connOf EXCEPT ![cur] = 0]
    /\ cur' = 0
    /\ hubpc' = "poll"
    /\ UNCHANGED <<backlog, pendConns, registered, readable, accepts, pollFrame>>

NextPoll ==
    \/ Connect
    \/ \E fd \in Fds : ClientSend(fd)
    \/ PollConns
    \/ AcceptRegister
    \/ ConnsDone
    \/ \E fd \in Fds : ReqFromRawFd(fd)
    \/ ReqDeregister
    \/ ReqHandleStream

InitPoll ==
    /\ bound = [conns |-> PollConnsMax, subs |-> PollSubs, events |-> 0]
    /\ Start
    /\ OthersIdle

SpecPoll == InitPoll /\ [][NextPoll]_vars

(***************************************************************************)
(* Properties.                                                             *)
(***************************************************************************)
\* the last step handled a request that HttpRequest::new accepted
Handled == out.op = "request" /\ out.parsed
Http11 == Handled /\ out.ver = "1.1"
IsGetSubscribe(o) ==
    o.op = "request" /\ o.parsed /\ o.ver = "1.1" /\ o.method = "GET" /\ o.path = "/subscribe"
IsGetCtlFreq(o) ==
    o.op = "request" /\ o.parsed /\ o.ver = "1.1" /\ o.method = "GET" /\ o.path = "/ctlfreq"
\* a PUT /ctlfreq whose body is well-formed JSON {"ctlfreq": o.put}
IsPutCtlFreq(o) ==
    o.op = "request" /\ o.parsed /\ o.ver = "1.1" /\ o.method = "PUT" /\ o.path = "/ctlfreq"
    /\ o.put # -1

IsPrefix(s, t) == Len(s) <= Len(t) /\ SubSeq(t, 1, Len(s)) = s

\* C1, as claimed: the subscriber set never holds more than 4 streams, and a
\* GET /subscribe handled while it holds 4 is answered 429 and not added.
C1_SubscribeFull429 ==
    /\ [](Len(streamers) <= StreamersCap)
    /\ [][(IsGetSubscribe(out') /\ Len(streamers) = StreamersCap)
            => (out'.status = StatusTooManyRequests /\ streamers' = streamers)]_vars

\* C1, amended: the subscriber set never holds more than 4 streams, and a
\* GET /subscribe handled while it holds 4 is not added and is answered 429,
\* or 500 when the connection's stream could not be cloned (try_clone comes
\* before the capacity check).
C1_SubscriberCap ==
    /\ [](Len(streamers) <= StreamersCap)
    /\ [][(IsGetSubscribe(out') /\ Len(streamers) = StreamersCap)
            => /\ streamers' = streamers
               /\ out'.status = IF out'.cloned THEN StatusTooManyRequests
                                ELSE StatusInternalServerError]_vars

\* a fifth subscribe was refused with 429 while four streams were subscribed
C1_Witness ==
    /\ IsGetSubscribe(out)
    /\ out.status = StatusTooManyRequests
    /\ Len(streamers) = StreamersCap

\* the state the replica had after the first n events of hist
RECURSIVE StateAfter(_)
StateAfter(n) ==
    IF n = 0 THEN StateDefault ELSE EventState(StateAfter(n - 1), hist[n])

\* the messages stream_event produced for the events after the first n
RECURSIVE MessagesSince(_)
MessagesSince(n) ==
    IF n >= Len(hist) THEN <<>>
    ELSE StreamEvent(StateAfter(n + 1), hist[n + 1]) \o MessagesSince(n + 1)

\* C2, as claimed: the SSE messages on a subscriber's socket are exactly the
\* hub events processed after its handshake, one message each, none missing.
C2_OneMessagePerEvent ==
    \A fd \in Range(streamers) : Len(sock[fd]) = Len(hist) - subAt[fd]

\* C2, amended: for every subscriber in the set, the SSE messages on its
\* socket are exactly what stream_event makes of the hub events processed
\* after its handshake, in the order the hub processed them: nothing for
\* UpdateChannelParams, for an opcode that is not streamed or for a channel id
\* that does not resolve, one altControl per alternative that resolves, one
\* message for every other event.
C2_Delivery ==
    \A fd \in Range(streamers) : sock[fd] = MessagesSince(subAt[fd])

\* a subscriber that joined after the first event and has been written to
C2_Witness ==
    \E fd \in Range(streamers) :
        /\ subAt[fd] >= 1
        /\ Len(hist) > subAt[fd]
        /\ sock[fd] # <<>>

NoCtlFreqPending == \A i \in DOMAIN hubQ : hubQ[i].op # "UpdateCtlFreq"

\* C3, as claimed: once the Receiver has processed the SetControlFreq(F) of
\* the latest PUT /ctlfreq, a GET /ctlfreq answers F.
C3_AfterReceiver ==
    (IsGetCtlFreq(out) /\ lastPut # {} /\ recvQ = <<>>) => out.ctlfreq \in lastPut

\* C3, amended: once the Receiver has processed the SetControlFreq(F) of the
\* latest PUT /ctlfreq and the hub has processed the UpdateCtlFreq(F) the
\* Receiver sent in return, a GET /ctlfreq answers F.
C3_AfterHub ==
    (IsGetCtlFreq(out) /\ lastPut # {} /\ recvQ = <<>> /\ NoCtlFreqPending)
        => out.ctlfreq \in lastPut

\* a GET /ctlfreq answered the value of the PUT before it
C3_Witness ==
    /\ IsGetCtlFreq(out)
    /\ lastPut # {}
    /\ recvQ = <<>>
    /\ NoCtlFreqPending
    /\ out.ctlfreq \in lastPut

\* C4: an HTTP/1.1 OPTIONS request to any path is answered 200 with the
\* headers Access-Control-Allow-Methods and Access-Control-Allow-Headers.
C4_OptionsAnyPath ==
    (Http11 /\ out.method = "OPTIONS") => (out.status = StatusOk /\ out.cors)

\* C5: a request whose version is not 1.1 is answered 501 whatever its
\* method and path, adds no subscriber and forwards no SetControlFreq.
C5_OtherVersion501 ==
    [][(out'.op = "request" /\ out'.parsed /\ out'.ver # "1.1")
        => (out'.status = StatusNotImplemented
            /\ streamers' = streamers /\ recvQ' = recvQ)]_vars

\* C6: handling a request never removes a subscriber or writes to one: the
\* streams subscribed before are the first streams of the set after, and a
\* GET /subscribe answered 429 leaves the set as it was.
C6_NoEviction ==
    [][out'.op = "request"
        => /\ IsPrefix(streamers, streamers')
           /\ \A fd \in Range(streamers) : sock'[fd] = sock[fd] /\ subAt'[fd] = subAt[fd]
           /\ out'.status = StatusTooManyRequests => streamers' = streamers]_vars

\* a subscribe was refused with the four subscribers served before and after
C6_Witness ==
    /\ out.op = "request"
    /\ out.status = StatusTooManyRequests
    /\ Len(streamers) = StreamersCap
    /\ hist # <<>>
    /\ \A fd \in Range(streamers) : sock[fd] # <<>> /\ sock[fd] = MessagesSince(subAt[fd])

\* C7: when the hub fans out one event, every subscriber whose write failed
\* is gone from the set, and every other subscriber is still in it with the
\* event's messages appended to what its socket held.
C7_FanOutIsolation ==
    [][out'.op = "event"
        => LET msgs == StreamEvent(state', Head(hubQ))
           IN  \A fd \in Range(streamers) :
                  IF fd \in out'.failed
                  THEN fd \notin Range(streamers')
                  ELSE fd \in Range(streamers') /\ sock'[fd] = sock[fd] \o msgs]_vars

\* one event's fan-out failed for a subscriber and reached another
C7_Witness ==
    /\ out.op = "event"
    /\ out.failed # {}
    /\ \E fd \in Range(streamers) :
          /\ subAt[fd] < Len(hist)
          /\ sock[fd] # <<>>
          /\ StreamEvent(state, hist[Len(hist)]) # <<>>

\* C8: HubState.channels is changed by the hub's processing of an
\* UpdateChannelParams event, which stores the event's parameters under the
\* event's id, and by nothing else: every other step leaves it as it was.
C8_ChannelsOnlyByParamsUpdate ==
    [][IF out'.op = "event" /\ Head(hubQ).op = "UpdateChannelParams"
       THEN state'.channels =
                [state.channels EXCEPT ![Head(hubQ).arg.id] = {Head(hubQ).arg.params}]
       ELSE state'.channels = state.channels]_vars

\* a second UpdateChannelParams replaced the parameters the first had stored
C8_Witness ==
    /\ out.op = "event"
    /\ Len(hist) = 2
    /\ hist[1].op = "UpdateChannelParams"
    /\ hist[2].op = "UpdateChannelParams"
    /\ hist[1].arg.params # hist[2].arg.params
    /\ state.channels[0] = {hist[2].arg.params}

\* C9: HubState changes only in a step in which the hub, in handle_chan,
\* processes a State event taken from its channel; handling an HTTP request
\* leaves it unchanged.
C9_StateOnlyByStateEvent ==
    [][/\ state' # state
          => (out'.op = "event" /\ hubpc = "chan" /\ Head(hubQ).type = "State")
       /\ out'.op = "request" => state' = state]_vars

\* a PUT /ctlfreq was accepted and the replica still holds another frequency
C9_Witness ==
    /\ IsPutCtlFreq(out)
    /\ out.status = StatusOk
    /\ state.ctlfreq # out.put

\* C10: a PUT /ctlfreq with a well-formed body {"ctlfreq": F} puts exactly one
\* SetControlFreq(F) on the receiver channel and is answered 200 when the
\* Receiver holds its end of the channel; when it does not, the send fails,
\* the answer is 500 and the channel is left as it was.
C10_PutForwards ==
    [][IsPutCtlFreq(out')
        => IF recvAlive
           THEN out'.status = StatusOk /\ recvQ' = Append(recvQ, out'.put)
           ELSE out'.status = StatusInternalServerError /\ recvQ' = recvQ]_vars

\* a PUT /ctlfreq was answered 500 after the Receiver had gone
C10_Witness ==
    /\ IsPutCtlFreq(out)
    /\ ~recvAlive
    /\ out.status = StatusInternalServerError

(***************************************************************************)
(* PUT /ctlfreq seen from a subscriber.                                    *)
(***************************************************************************)
\* the subscribers that were subscribed when the latest PUT /ctlfreq was forwarded
Awaited == {fd \in Range(streamers) : putAt[fd] >= 0}

\* the SSE messages written to a subscriber since that PUT
Since(fd) == SubSeq(sock[fd], putAt[fd] + 1, Len(sock[fd]))

CtlFreqMsg(f) == SerdeEvent("ctlFreq", [v |-> f])
IsCtlFreqMsg(m) == m.event = "ctlFreq"

\* C16, as claimed: the first SSE message written to a subscriber after a
\* PUT /ctlfreq with value F was accepted is the ctlFreq event with payload F.
C16_NextEventIsCtlFreq ==
    \A fd \in Awaited, f \in lastPut :
        Since(fd) # <<>> => Since(fd)[1] = CtlFreqMsg(f)

\* C16, amended: once the Receiver has taken the SetControlFreq(F) of the
\* latest accepted PUT /ctlfreq and the hub has handled every UpdateCtlFreq on
\* its channel, a subscriber that was subscribed when the PUT was accepted has
\* been written the ctlFreq event with payload F, and it is the last ctlFreq
\* event written to it; events sent on the hub channel before it are written
\* to the subscriber first.
C16_CtlFreqDelivered ==
    \A fd \in Awaited, f \in lastPut :
        (recvQ = <<>> /\ NoCtlFreqPending) =>
            LET ctl == SelectSeq(Since(fd), IsCtlFreqMsg)
            IN  ctl # <<>> /\ ctl[Len(ctl)] = CtlFreqMsg(f)

\* a subscriber was written another event and then the ctlFreq event of the PUT
C16_Witness ==
    \E fd \in Awaited, f \in lastPut :
        /\ recvQ = <<>>
        /\ NoCtlFreqPending
        /\ Len(Since(fd)) >= 2
        /\ ~IsCtlFreqMsg(Since(fd)[1])
        /\ Since(fd)[Len(Since(fd))] = CtlFreqMsg(f)

(***************************************************************************)
(* The hub channel seen from the senders.                                  *)
(***************************************************************************)
\* C18: whatever the HTTP clients and the subscribers do, and whatever the hub
\* thread is doing, a send on the hub channel by the Demodulator or by the
\* Receiver can complete at once: it waits neither for the hub nor for a client.
C18_SendNeverWaits ==
    EventBudget =>
        /\ \A e \in EmitEvents : ENABLED Emit(e)
        /\ (recvAlive /\ recvQ # <<>>) => ENABLED RecvSetControlFreq

\* an event was sent on the hub channel while the hub thread was blocked on a
\* slow client, behind an event the hub has not taken yet
C18_Witness ==
    /\ out.op = "send"
    /\ HubBlocked
    /\ Len(hubQ) >= 2

(***************************************************************************)
(* Properties of the replay.                                               *)
(***************************************************************************)
IsVoiceFrame(event) == event.kind = "VoiceFrame"

\* the frames of the VoiceFrame events of a sequence of decoder events, in order
VoiceFrames(events) ==
    LET voice == SelectSeq(events, IsVoiceFrame)
    IN  [i \in 1 .. Len(voice) |-> voice[i].frame]

\* C11: whatever samples are fed, the audio frames given to the audio sink are
\* the frames of the VoiceFrame events the decoder yielded: as many, in the
\* same order, none dropped, duplicated or inserted.
C11_AudioIsVoiceFrames == audio = VoiceFrames(yielded)

\* a replay that ended after the decoder yielded two voice frames and, between
\* or around them, an event that is not a voice frame
C11_Witness ==
    /\ replaypc = "done"
    /\ Len(audio) >= 2
    /\ Len(yielded) > Len(audio)

(***************************************************************************)
(* Properties of the Receiver.                                             *)
(***************************************************************************)
\* the frequencies of the Tune commands of the last step
Tuned == Range(rxOut.tunes)

\* C12: with --nohop, every Tune the Receiver issues is to the configured
\* initial control frequency or to a frequency a SetControlFreq command (a
\* PUT /ctlfreq) supplied.
C12_NoHopTunes == args.nohop => Tuned \subseteq ({args.freq} \cup puts)

\* with --nohop, after the site's IDENT_UPDATE was decoded, a command re-tuned
\* the Receiver to a frequency other than the initial one
C12_Witness ==
    /\ args.nohop
    /\ rx.channels[0] # {}
    /\ rxOut.kind = "command"
    /\ \E f \in Tuned : f # args.freq

\* C13: when a Collecting window ends in a hop, the frequency tuned to is the
\* frequency of a grant observed during that window.
C13_HopWithinWindow ==
    (rxOut.expired = "Collecting" /\ rxOut.tunes # <<>>)
        => \A f \in Tuned : \E g \in rxOut.seen : Resolve(rx.channels, g.ch) = f

\* a window in which two grants were seen ended in a hop
C13_Witness ==
    /\ rxOut.expired = "Collecting"
    /\ rxOut.tunes # <<>>
    /\ rx.mode = "TrafficListening"
    /\ Cardinality(rxOut.seen) >= 2

\* C14: after a hop, the next Tune is to the current ctl_freq and brings the
\* Receiver back to ControlListening, and a Receiver that has seen no voice
\* frame since the hop does not stay locked for watchdog_window samples.
C14_WatchdogReturns ==
    /\ []((rx.mode = "TrafficListening" /\ rx.policy.mode = "Locked" /\ ~voiced)
            => sinceHop < args.watchdog)
    /\ [][(rx.mode = "TrafficListening" /\ rxOut'.tunes # <<>>)
            => (rxOut'.tunes = <<rx'.ctlFreq>> /\ rx'.mode = "ControlListening")]_vars

\* the watchdog expired and the Receiver tuned back to a control frequency
\* that a command had changed while it was on the traffic channel
C14_Witness ==
    /\ rxOut.expired = "Locked"
    /\ rxOut.tunes = <<rx.ctlFreq>>
    /\ rx.ctlFreq # args.freq
    /\ rx.mode = "ControlListening"

\* C15: in Idle the sample counter is 0; in Collecting it is at most
\* tgselect_window, in Locked at most watchdog_window, in Paused at most
\* pause_window (the windows of the command line).
C15_CounterBounds ==
    /\ rx.policy.mode = "Idle" => rx.policy.count = 0
    /\ rx.policy.mode = "Collecting" => rx.policy.count <= args.tgselect
    /\ rx.policy.mode = "Locked" => rx.policy.count <= args.watchdog
    /\ rx.policy.mode = "Paused" => rx.policy.count <= args.pause

\* the Receiver is paused on a traffic channel and its counter is running
C15_Witness ==
    /\ rx.policy.mode = "Paused"
    /\ rx.policy.count >= 1

\* the grants of a closed window whose channel resolved by the time it closed
Eligible == {g \in rxOut.seen : Resolve(rx.channels, g.ch) # 0}

\* C17: when a Collecting window closes with an eligible grant, exactly one
\* Tune is issued, to the frequency of the highest-priority talkgroup granted
\* in the window; with no eligible grant no Tune is issued and the Receiver
\* stays in ControlListening.
C17_PickHighestPriority ==
    rxOut.expired = "Collecting" =>
        IF Eligible # {}
        THEN \E g \in Eligible :
                /\ \A o \in Eligible : Priority(g.tg) >= Priority(o.tg)
                /\ rxOut.tunes = <<Resolve(rx.channels, g.ch)>>
        ELSE rxOut.tunes = <<>> /\ rx.mode = "ControlListening"

\* a window in which A and B were granted closed with one Tune, to B's frequency
C17_Witness ==
    /\ rxOut.expired = "Collecting"
    /\ {g.tg : g \in Eligible} = {1, 2}
    /\ rxOut.tunes = <<RxFreq(SiteParams, 3)>>

(***************************************************************************)
(* The sample path.                                                        *)
(***************************************************************************)

\* the small capacity the iq channel is described as having
IqCapacity == 2

Demodulated(q) == [i \in 1 .. Len(q) |-> Demod(q[i])]

\* C19: samples are lost only at the Reader: the iq channel is bounded, a
\* block that finds it full is dropped and counted by the drop counter, and
\* every block accepted is demodulated and delivered in the order it was sent
C19_LostOnlyAtReader ==
    /\ Len(iq) <= IqCapacity
    /\ produced = Len(accepted) + drops
    /\ Demodulated(accepted) = delivered \o bb \o Demodulated(iq)

(***************************************************************************)
(* The token packing.                                                      *)
(***************************************************************************)

\* C20: the token encoding is lossless: a Request(fd) with 0 <= fd < 2^24
\* converts to a Token and back to Request(fd), Conns and Events convert back
\* to themselves, and for_request rejects every fd with a bit above the low 24
C20_TokenLossless ==
    LET fd == tokIn.fd
        inRange == 0 <= fd /\ fd < 16777216
    IN  /\ (tokIn.kind = "Request" /\ inRange) => tokpc # "panic"
        /\ (tokIn.kind = "Request" /\ ~inRange /\ tokpc # "start") => tokpc = "panic"
        /\ tokIn.kind \in {"Conns", "Events"} => tokpc # "panic"
        /\ tokpc = "decoded" => back = tokIn

C20_Witness ==
    /\ tokpc = "decoded"
    /\ tokIn.kind = "Request"
    /\ tokIn.fd = 16777215
    /\ back = [kind |-> "Request", fd |-> 16777215]

(***************************************************************************)
(* Ownership of descriptors in handle_poll.                                *)
(***************************************************************************)

\* the descriptors some stream object of the hub owns: the stream of
\* handle_poll and the subscriber streams
OwnedByStream == owned \cup Range(streamers)

\* C21: on a Request event the descriptor is unregistered from the poll set
\* before the stream object is rebuilt from it, so that no descriptor is at
\* once registered and owned by a stream object, and each accepted
\* connection is handled at most once
C21_UnregisterBeforeOwn ==
    /\ OwnedByStream \cap registered = {}
    /\ \A i, j \in DOMAIN handled : handled[i] = handled[j] => i = j

(***************************************************************************)
(* Subscribers whose peer has gone, events waiting on the hub channel.     *)
(***************************************************************************)

\* C22: a subscriber stream stays in the subscriber set until its peer closes
\* the connection or a write to it fails, and is removed when either
\* happens: a subscriber whose peer has closed eventually leaves the set
C22_ClosedPeerLeaves ==
    /\ [][\A fd \in Range(streamers) :
            fd \notin Range(streamers') => (fd \in peerClosed \/ fd \in out'.failed)]_vars
    /\ \A fd \in Fds : (fd \in peerClosed) ~> (fd \notin Range(streamers))

\* the nth event sent on the hub channel has been processed
Processed(n) == Len(hist) >= n

\* C23: every event sent on the hub channel is eventually taken by the hub
\* and processed once, in the order sent, while the channel is connected;
\* with no wake-up pending and the hub in the poll the channel is empty; and
\* when all senders are gone the hub stops
C23_EveryEventProcessed ==
    /\ \A n \in 1 .. LifeEvents :
          (Len(hist) + Len(hubQ) >= n) ~> (Processed(n) \/ ~sendersAlive)
    /\ []((hubpc = "poll" /\ ~pendEvents) => hubQ = <<>>)
    /\ []((~sendersAlive /\ ~pendEvents) => hubpc \in {"chan", "panic"})

(***************************************************************************)
(* GET /ctlfreq and the ctlFreq events of the subscribers.                 *)
(***************************************************************************)

\* the payload of the last UpdateCtlFreq the hub has processed, or the
\* frequency the replica starts with
LastCtlFreq ==
    LET upd == {i \in DOMAIN hist : hist[i].type = "State" /\ hist[i].op = "UpdateCtlFreq"}
    IN  IF upd = {} THEN U32Max
        ELSE hist[CHOOSE i \in upd : \A j \in upd : j <= i].arg.f

\* the ctlFreq events a subscriber has been written
CtlFreqSeen(fd) == SelectSeq(sock[fd], IsCtlFreqMsg)

\* C24: the hub applies a State event to its replica before it writes the
\* event to a subscriber: GET /ctlfreq answers u32::MAX or the payload of the
\* last UpdateCtlFreq event processed, and a subscriber whose latest ctlFreq
\* event carried F is answered F
C24_GetCtlFreqIsLastProcessed ==
    /\ state.ctlfreq = LastCtlFreq
    /\ IsGetCtlFreq(out) => out.ctlfreq = LastCtlFreq
    /\ \A fd \in Range(streamers) :
          CtlFreqSeen(fd) # <<>> =>
              /\ CtlFreqSeen(fd)[Len(CtlFreqSeen(fd))] = CtlFreqMsg(state.ctlfreq)
              /\ IsGetCtlFreq(out) =>
                    CtlFreqSeen(fd)[Len(CtlFreqSeen(fd))] = CtlFreqMsg(out.ctlfreq)

\* a GET /ctlfreq answered the frequency of the ctlFreq event a subscriber
\* was written last, after an earlier ctlFreq event with another frequency
C24_Witness ==
    /\ IsGetCtlFreq(out)
    /\ out.ctlfreq # U32Max
    /\ \E fd \in Range(streamers) :
          /\ Len(CtlFreqSeen(fd)) >= 1
          /\ CtlFreqSeen(fd)[Len(CtlFreqSeen(fd))] = CtlFreqMsg(out.ctlfreq)
    /\ \E i \in DOMAIN hist :
          /\ hist[i].op = "UpdateCtlFreq"
          /\ hist[i].arg.f # out.ctlfreq

(***************************************************************************)
(* Requests the hub has no route or no arm for.                            *)
(***************************************************************************)

\* C25: an HTTP/1.1 request that is not OPTIONS is answered 404 when its path
\* is neither /subscribe nor /ctlfreq, whatever its method, and 405 when it
\* is /subscribe with a method other than GET or /ctlfreq with a method other
\* than GET and PUT; either way the subscriber set and the replica are left
\* as they were and nothing is sent to the Receiver
C25_NotFoundAndNotAllowed ==
    [][(out'.op = "request" /\ out'.parsed /\ out'.ver = "1.1" /\ out'.method # "OPTIONS")
        => LET noRoute == out'.path \notin {"/subscribe", "/ctlfreq"}
               noArm == \/ out'.path = "/subscribe" /\ out'.method # "GET"
                        \/ out'.path = "/ctlfreq" /\ out'.method \notin {"GET", "PUT"}
           IN  /\ noRoute => out'.status = StatusNotFound
               /\ noArm => out'.status = StatusMethodNotAllowed
               /\ (noRoute \/ noArm) =>
                     /\ streamers' = streamers
                     /\ state' = state
                     /\ recvQ' = recvQ
                     /\ lastPut' = lastPut]_vars

\* with a subscriber present, a POST /ctlfreq was answered 405
C25_Witness ==
    /\ Http11
    /\ out.method = "POST"
    /\ out.path = "/ctlfreq"
    /\ out.status = StatusMethodNotAllowed
    /\ streamers # <<>>

====
